---- MODULE Spec2Model ----
(***************************************************************************)
(* The genome interpreter of go-al (ga.go): Genome.Evaluate of the         *)
(* canonical A..I evaluator and of the reduced A..D evaluator.             *)
(*                                                                         *)
(* Energy is a float64 in the source.  It is modelled in fixed point, in   *)
(* units of 1/Scale with Scale = 40*40, which makes the metabolic term     *)
(* (1 + size/40)^2 = (40 + size)^2 / 1600 exact.  Threat only ever takes   *)
(* integral values (+1, -5, max with 0) and is an integer.  Fitness is     *)
(* 1.0 - children/1000.0 and is kept in thousandths.  Positions are        *)
(* 0-based as in the source; G[index] of the source is G[index + 1] here.  *)
(***************************************************************************)
EXTENDS Integers, Sequences, FiniteSets, TLC

VARIABLES
    G,        \* the genome under evaluation (Genome, a sequence of genes)
    g,        \* GenomeState of the evaluation
    index,    \* instruction pointer of the evaluation
    i,        \* loop counter of the evaluation
    pc,       \* "loop": in the for loop, "ret": at the return, "done"
    fitness,  \* named result, in thousandths
    err,      \* named result
    hist,     \* history of the evaluation (observation only)
    mode,     \* how a second evaluation is scheduled against the first
    c2,       \* a second evaluation of the same genome (canonical)
    r,        \* an evaluation of the same genome by the reduced evaluator
    ga        \* genomes held by the optimizer: storage, references, last operation

vars == <<G, g, index, i, pc, fitness, err, hist, mode, c2, r, ga>>

(***************************************************************************)
(* Bounds of the model.                                                    *)
(***************************************************************************)
MaxLen == 3
MaxLenTwo == 2
MaxLenFair == 2
MaxSkew == 2
MaxOps == 3
MaxDraw == 1

(***************************************************************************)
(* Program constants.                                                      *)
(***************************************************************************)
Scale == 40 * 40
StepBudget == 1000
FitnessUnit == 1000
InitEnergy == 10 * Scale
SpawnThreshold == 25 * Scale
SpawnCost == 25 * Scale
SkipThreat == 5
SkipEnergy == 30 * Scale

corpus == <<"A", "B", "C", "D", "E", "F", "G", "H", "I">>
Alphabet == {corpus[k] : k \in 1..Len(corpus)}
\* a gene outside the corpus (evaluateSingleGenome accepts any string)
Unexpected == "X"
Genes == Alphabet \cup {Unexpected}

\* math.Pow(size/2.0, 1.05) in units of 1/Scale, rounded to the nearest unit
GrowCostTable ==
  <<
     773, 1600, 2449, 3313, 4188, 5071, 5962, 6859,
     7762, 8670, 9583, 10500, 11420, 12344, 13272, 14202,
     15136, 16072, 17011, 17952, 18896, 19842, 20790, 21740,
     22692, 23646, 24602, 25560, 26519, 27480, 28443, 29407,
     30372, 31339, 32308, 33278, 34249, 35222, 36196, 37171,
     38147, 39125, 40103, 41083, 42064, 43046, 44029, 45013,
     45999, 46985, 47972, 48960, 49949, 50939, 51930, 52922,
     53915, 54908, 55903, 56898, 57894, 58891, 59889, 60887,
     61887, 62887, 63888, 64889, 65892, 66895, 67898, 68903,
     69908, 70914, 71921, 72928, 73936, 74944, 75953, 76963,
     77974, 78985, 79996, 81009, 82022, 83035, 84049, 85064,
     86079, 87095, 88111, 89128, 90146, 91164, 92182, 93202,
     94221, 95241, 96262, 97283, 98305, 99327, 100350, 101373,
     102397, 103421, 104446, 105471, 106497, 107523, 108549, 109576,
     110604, 111632, 112660, 113689, 114719, 115748, 116778, 117809,
     118840, 119872, 120903, 121936, 122969, 124002, 125035, 126069,
     127104, 128138, 129173, 130209, 131245, 132281, 133318, 134355,
     135393, 136431, 137469, 138507, 139546, 140586, 141625, 142666,
     143706, 144747, 145788, 146829, 147871, 148914, 149956, 150999,
     152042, 153086, 154130, 155174, 156219, 157264, 158309, 159355,
     160400, 161447, 162493, 163540, 164587, 165635, 166683, 167731,
     168779, 169828, 170877, 171927, 172976, 174026, 175077, 176127,
     177178, 178229, 179281, 180333, 181385, 182437, 183490, 184543,
     185596, 186650, 187703, 188758, 189812, 190867, 191921, 192977,
     194032, 195088, 196144, 197200, 198257, 199314, 200371, 201428,
     202486, 203544, 204602, 205660, 206719, 207778, 208837, 209896,
     210956, 212016, 213076, 214137, 215197, 216258, 217320, 218381,
     219443, 220505, 221567, 222629, 223692, 224755, 225818, 226881,
     227945, 229009, 230073, 231137, 232202, 233267, 234332, 235397,
     236462, 237528, 238594, 239660, 240727, 241793, 242860, 243927,
     244995, 246062, 247130, 248198, 249266, 250334, 251403, 252472,
     253541, 254610, 255679, 256749, 257819, 258889, 259959, 261030
  >>

GrowCost(size) == GrowCostTable[size]

\* math.Pow(1.0 + size/40.0, 2.0) in units of 1/Scale (exact)
Metabolism(size) == ((40 + size) * (40 + size) * Scale) \div (40 * 40)

\* 5.0 / (size/2.0) in units of 1/Scale, rounded to the nearest unit
DefendCost(size) == (10 * Scale + (size \div 2)) \div size

\* 1.0 * (size/2.0) in units of 1/Scale (exact, Scale is even)
EvadeCost(size) == (size * Scale) \div 2

Max(a, b) == IF a >= b THEN a ELSE b

NewGenomeState ==
    [Children |-> 0, Energy |-> InitEnergy, FoundFood |-> FALSE, Size |-> 1, Threat |-> 0]

(***************************************************************************)
(* The instruction effects of the canonical evaluator (the switch).        *)
(***************************************************************************)
\* slip: the cost of Spawn Child is deducted only when a child is spawned
SpawnChildFreeFailure(gs) ==
    IF gs.Energy > SpawnThreshold
    THEN [gs EXCEPT !.Children = @ + 1, !.Energy = @ - SpawnCost]
    ELSE gs

\* slip: the cost of Spawn Child is credited instead of deducted
SpawnChildRefund(gs) ==
    LET s1 == IF gs.Energy > SpawnThreshold
              THEN [gs EXCEPT !.Children = @ + 1]
              ELSE gs
    IN [s1 EXCEPT !.Energy = @ + SpawnCost]

SpawnChild(gs) ==
    LET s1 == IF gs.Energy > SpawnThreshold
              THEN [gs EXCEPT !.Children = @ + 1]
              ELSE gs
    IN [s1 EXCEPT !.Energy = @ - SpawnCost]

LocateFood(gs) == [gs EXCEPT !.FoundFood = TRUE]

\* slip: the clamp is a cap (math.Min) instead of a floor
EatFoodCap(gs) ==
    IF gs.FoundFood
    THEN LET e == gs.Energy + (10 + gs.Size) * Scale
             c == (gs.Size + 15) * Scale
         IN [gs EXCEPT !.Energy = IF e <= c THEN e ELSE c]
    ELSE gs

EatFood(gs) ==
    IF gs.FoundFood
    THEN [gs EXCEPT !.Energy = Max(@ + (10 + gs.Size) * Scale, (gs.Size + 15) * Scale)]
    ELSE gs

\* slip: the size is incremented before the cost is computed
GrowCostAfter(gs) == [gs EXCEPT !.Energy = @ - GrowCost(gs.Size + 1), !.Size = @ + 1]

Grow(gs) == [gs EXCEPT !.Energy = @ - GrowCost(gs.Size), !.Size = @ + 1]

\* slip: the threat is not clamped at 0
DefendNoFloor(gs) == [gs EXCEPT !.Energy = @ - DefendCost(gs.Size), !.Threat = @ - 5]

Defend(gs) == [gs EXCEPT !.Energy = @ - DefendCost(gs.Size), !.Threat = Max(@ - 5, 0)]

\* slip: the cost of evading is credited instead of deducted
EvadeGain(gs) == [gs EXCEPT !.Energy = @ + EvadeCost(gs.Size), !.Threat = @ - 5]

Evade(gs) == [gs EXCEPT !.Energy = @ - EvadeCost(gs.Size), !.Threat = @ - 5]

\* the unwrapped index++ of the two skip instructions
SkipLowThreat(gs, idx) == IF gs.Threat < SkipThreat THEN idx + 1 ELSE idx

SkipLowEnergy(gs, idx) == IF gs.Energy < SkipEnergy THEN idx + 1 ELSE idx

Dispatch(gene, gs, idx) ==
    CASE gene = "A" -> [g |-> gs, index |-> idx]
      [] gene = "B" -> [g |-> SpawnChild(gs), index |-> idx]
      [] gene = "C" -> [g |-> LocateFood(gs), index |-> idx]
      [] gene = "D" -> [g |-> EatFood(gs), index |-> idx]
      [] gene = "E" -> [g |-> Grow(gs), index |-> idx]
      [] gene = "F" -> [g |-> Defend(gs), index |-> idx]
      [] gene = "G" -> [g |-> Evade(gs), index |-> idx]
      [] gene = "H" -> [g |-> gs, index |-> SkipLowThreat(gs, idx)]
      [] gene = "I" -> [g |-> gs, index |-> SkipLowEnergy(gs, idx)]
      [] OTHER -> [g |-> gs, index |-> idx]

\* slip: the two skips are not among the genes that keep the food
KeepsFoodNoSkips(gene) == gene \in {"C", "A"}

\* slip: Eat Food is listed among the genes that keep the food
KeepsFoodAfterEat(gene) == gene \in {"C", "D", "A", "H", "I"}

\* "Lose track of food unless we've just found it, or the gene is a no-op"
KeepsFood(gene) == gene \in {"C", "A", "H", "I"}

FoodDecay(gene, gs) ==
    IF ~KeepsFood(gene) THEN [gs EXCEPT !.FoundFood = FALSE] ELSE gs

\* slip: only the two skips are exempt from the energy/threat evaluation
PassiveSkipsOnly(gene) == gene \in {"H", "I"}

\* "Skip energy/threat evaluation if no-op"
Passive(gene) == gene \in {"A", "H", "I"}

\* slip: the surcharge is deducted from threat >= 20 + size on
MetabolicDecaySurchargeAtEqual(gene, gs) ==
    IF ~Passive(gene)
    THEN LET s1 == [gs EXCEPT !.Energy = @ - Metabolism(gs.Size), !.Threat = @ + 1]
         IN IF s1.Threat >= 20 + s1.Size
            THEN [s1 EXCEPT !.Energy = @ - s1.Threat * Scale]
            ELSE s1
    ELSE gs

\* slip: the energy/threat evaluation is applied to genes of the corpus only
MetabolicDecayKnownOnly(gene, gs) ==
    IF gene \in {"B", "C", "D", "E", "F", "G"}
    THEN LET s1 == [gs EXCEPT !.Energy = @ - Metabolism(gs.Size), !.Threat = @ + 1]
         IN IF s1.Threat > 20 + s1.Size
            THEN [s1 EXCEPT !.Energy = @ - s1.Threat * Scale]
            ELSE s1
    ELSE gs

MetabolicDecay(gene, gs) ==
    IF ~Passive(gene)
    THEN LET s1 == [gs EXCEPT !.Energy = @ - Metabolism(gs.Size), !.Threat = @ + 1]
         IN IF s1.Threat > 20 + s1.Size
            THEN [s1 EXCEPT !.Energy = @ - s1.Threat * Scale]
            ELSE s1
    ELSE gs

Wasted(gs) == gs.Energy <= 0

\* slip: wrap by resetting to 0 at the end instead of taking the remainder
PointerAdvanceReset(idx, n) == IF idx + 1 >= n THEN 0 ELSE idx + 1

\* index = (index + 1) % len(G)
PointerAdvance(idx, n) == (idx + 1) % n

\* slip: the children are added instead of subtracted
FitnessSignSlip(gs) == FitnessUnit + gs.Children

\* 1.0 - (float64(g.Children) / 1000.0), in thousandths
Fitness(gs) == FitnessUnit - gs.Children

(***************************************************************************)
(* One iteration of the for loop of Evaluate on the locals s of a call:    *)
(* fetch, dispatch, food decay, metabolic decay, death check, advance and  *)
(* the i++ / i < 1000 test that follows.                                   *)
(***************************************************************************)
\* slip: the GenomeState is a package-level variable shared by the calls
StateOfShared(s) == g

\* g := GenomeState{...} is a local of the call
StateOf(s) == s.g

\* slip: the death check does not leave the loop
LoopBodyNoBreak(genome, s) ==
    LET gene == genome[s.index + 1]
        d == Dispatch(gene, StateOf(s), s.index)
        m == MetabolicDecay(gene, FoodDecay(gene, d.g))
    IN [s EXCEPT !.g = m,
                 !.index = PointerAdvance(d.index, Len(genome)),
                 !.i = @ + 1,
                 !.pc = IF s.i + 1 < StepBudget THEN "loop" ELSE "ret"]

LoopBody(genome, s) ==
    LET gene == genome[s.index + 1]
        d == Dispatch(gene, StateOf(s), s.index)
        m == MetabolicDecay(gene, FoodDecay(gene, d.g))
    IN IF Wasted(m)
       THEN [s EXCEPT !.g = m, !.index = d.index, !.pc = "ret"]
       ELSE [s EXCEPT !.g = m,
                      !.index = PointerAdvance(d.index, Len(genome)),
                      !.i = @ + 1,
                      !.pc = IF s.i + 1 < StepBudget THEN "loop" ELSE "ret"]

NewCall == [g |-> NewGenomeState, index |-> 0, i |-> 0, pc |-> "loop", fitness |-> 0]

(***************************************************************************)
(* The reduced evaluator (corpus "ABCD").                                  *)
(***************************************************************************)
RSpawnThreshold == 5 * Scale
RSpawnCost == 5 * Scale
RFoodGain == 10 * Scale
RDecayCost == 1 * Scale

RNewGenomeState == [Children |-> 0, Energy |-> InitEnergy, FoundFood |-> FALSE]

\* slip: the reduced evaluator uses the threshold of the canonical one
RSpawnChildCanon(gs) ==
    LET s1 == IF gs.Energy > SpawnThreshold
              THEN [gs EXCEPT !.Children = @ + 1]
              ELSE gs
    IN [s1 EXCEPT !.Energy = @ - RSpawnCost]

RSpawnChild(gs) ==
    LET s1 == IF gs.Energy > RSpawnThreshold
              THEN [gs EXCEPT !.Children = @ + 1]
              ELSE gs
    IN [s1 EXCEPT !.Energy = @ - RSpawnCost]

REatFood(gs) == IF gs.FoundFood THEN [gs EXCEPT !.Energy = @ + RFoodGain] ELSE gs

RDispatch(gene, gs) ==
    CASE gene = "A" -> gs
      [] gene = "B" -> RSpawnChild(gs)
      [] gene = "C" -> LocateFood(gs)
      [] gene = "D" -> REatFood(gs)
      [] OTHER -> gs

RFoodDecay(gene, gs) == IF gene # "C" THEN [gs EXCEPT !.FoundFood = FALSE] ELSE gs

\* slip: the unit decay is applied twice
RDecayTwice(gs) == [gs EXCEPT !.Energy = @ - 2 * RDecayCost]

\* g.Energy = g.Energy - 1.0, on every step
RDecay(gs) == [gs EXCEPT !.Energy = @ - RDecayCost]

RLoopBody(genome, s) ==
    LET gene == genome[s.index + 1]
        m == RDecay(RFoodDecay(gene, RDispatch(gene, s.g)))
    IN IF Wasted(m)
       THEN [s EXCEPT !.g = m, !.pc = "ret"]
       ELSE [s EXCEPT !.g = m,
                      !.index = PointerAdvance(s.index, Len(genome)),
                      !.i = @ + 1,
                      !.pc = IF s.i + 1 < StepBudget THEN "loop" ELSE "ret"]

RNewCall == [g |-> RNewGenomeState, index |-> 0, i |-> 0, pc |-> "loop", fitness |-> 0]

(***************************************************************************)
(* Genomes.                                                                *)
(***************************************************************************)
GenomesUpTo(n, genes) == UNION {[1..k -> genes] : k \in 1..n}

\* longer genomes in which Spawn Child succeeds (the last one then fails a B)
Scenarios ==
    { <<"I", "B", "C", "D">>, <<"D", "I", "B", "C">>, <<"C", "D", "I", "B">>,
      <<"C", "D", "G", "I", "B">>, <<"C", "D", "C", "D", "C", "D", "B">>,
      <<"C", "D", "C", "D", "B">> }

\* nothing executed yet: no last step
NewHist ==
    [steps |-> 0, fetched |-> {}, lastPos |-> -1, lastGene |-> "", prevGene |-> "",
     before |-> NewGenomeState, trailBefore |-> FALSE, trail |-> FALSE,
     effect |-> NewGenomeState, grows |-> 0, spawns |-> 0, evaded |-> FALSE]

(***************************************************************************)
(* The genome operators (Clone, Mutate, Crossover).  A Genome is a slice:  *)
(* a reference to a backing array.  ga.heap is the sequence of backing     *)
(* arrays, an address is an index into it, and ga.ref gives the address    *)
(* each of the optimizer's genomes g, y and g2 refers to (0: not yet set). *)
(***************************************************************************)
MutRate == 2
CrossPoints == 3

\* the shortest length on which CrossPoints distinct cut points exist
OpsLen == CrossPoints + 1

\* the k-th genome the operators start from; the second one may be shorter
OpsGenome(k) == SubSeq(corpus, k * OpsLen + 1, (k + 1) * OpsLen)

Slots == {"g", "y", "g2"}

NewGA(g0, y0) ==
    [heap |-> <<g0, y0>>,
     ref |-> [x \in Slots |-> IF x = "g" THEN 1 ELSE IF x = "y" THEN 2 ELSE 0],
     ops |-> 0,
     result |-> "ok",
     last |-> [op |-> "none", x |-> "", z |-> "", heap |-> <<g0, y0>>],
     snap |-> <<>>,
     touched |-> {}]

\* slip: the clone is the receiver itself (XX := G), no new backing array
CloneAlias(h, a) == [heap |-> h, addr |-> a]

\* var XX = make(Genome, len(G)); copy(XX, G); return XX
Clone(h, a) == [heap |-> Append(h, h[a]), addr |-> Len(h) + 1]

\* the elements the random source draws for a mutation
DrawGenes == {corpus[k] : k \in (Len(corpus) - MaxDraw + 1)..Len(corpus)}

\* the draws of one Mutate: MutRate times a position and an element of corpus
Draws(n) == [1..MutRate -> [pos : 0..(n - 1), elem : DrawGenes]]

RECURSIVE MutUniformString(_, _, _)
\* eaopt.MutUniformString(G, corpus, 2, rng): writes into the slice it is given
MutUniformString(arr, draws, k) ==
    IF k > Len(draws) THEN arr
    ELSE MutUniformString([arr EXCEPT ![draws[k].pos + 1] = draws[k].elem], draws, k + 1)

Mutate(h, a, draws) == [h EXCEPT ![a] = MutUniformString(@, draws, 1)]

\* the sets of CrossPoints distinct cut points inside a genome of length n
CutSets(n) == {c \in SUBSET (1..(n - 1)) : Cardinality(c) = CrossPoints}

\* the offspring takes the segments between cut points alternately from p1, p2
Offspring(p1, p2, cuts, n) ==
    [k \in 1..Len(p1) |->
        IF k <= n /\ Cardinality({c \in cuts : c <= k - 1}) % 2 = 1 THEN p2[k] ELSE p1[k]]

\* slip: the second operand is not written back
CrossGNXStringOneWay(h, a, b, cuts, n) ==
    [h EXCEPT ![a] = Offspring(h[a], h[b], cuts, n)]

\* eaopt.CrossGNXString(G, Y.(Genome), 3, rng): both slices are overwritten
\* with the offspring; nothing is returned
CrossGNXString(h, a, b, cuts, n) ==
    [h EXCEPT ![a] = Offspring(h[a], h[b], cuts, n),
              ![b] = Offspring(h[b], h[a], cuts, n)]

MinLen(p1, p2) == IF Len(p1) <= Len(p2) THEN Len(p1) ELSE Len(p2)

\* the record of an operation on the slots xs that left the storage h2
Operated(op, x, z, h2, res) ==
    [ga EXCEPT !.heap = h2,
               !.ops = @ + 1,
               !.result = res,
               !.last = [op |-> op, x |-> x, z |-> z, heap |-> ga.heap],
               !.touched = IF ga.ref["g2"] # 0 THEN @ \cup ({x, z} \ {""}) ELSE @]

EvalIdle == UNCHANGED <<G, g, index, i, pc, fitness, err, hist, mode, c2, r>>

CanOperate == ga.ops < MaxOps /\ ga.result = "ok"

\* g2 = g.Clone()
OpClone ==
    /\ CanOperate
    /\ ga.ref["g2"] = 0
    /\ LET c == Clone(ga.heap, ga.ref["g"])
       IN ga' = [ga EXCEPT !.heap = c.heap,
                           !.ref = [@ EXCEPT !["g2"] = c.addr],
                           !.ops = @ + 1,
                           !.last = [op |-> "clone", x |-> "g", z |-> "g2", heap |-> ga.heap],
                           !.snap = ga.heap[ga.ref["g"]],
                           !.touched = {}]
    /\ EvalIdle

\* x.Mutate(rng)
OpMutate ==
    /\ CanOperate
    /\ \E x \in Slots :
          /\ ga.ref[x] # 0
          /\ \E draws \in Draws(Len(ga.heap[ga.ref[x]])) :
                ga' = Operated("mutate", x, "", Mutate(ga.heap, ga.ref[x], draws), "ok")
    /\ EvalIdle

\* x.Crossover(z, rng).  Crossover has no result and checks nothing itself.
\* On operands of different lengths the library either panics before it
\* writes or crosses the positions both operands have.
OpCrossover ==
    /\ CanOperate
    /\ \E x, z \in Slots :
          /\ x # z /\ ga.ref[x] # 0 /\ ga.ref[z] # 0
          /\ LET a == ga.ref[x]
                 b == ga.ref[z]
                 n == MinLen(ga.heap[a], ga.heap[b])
             IN \/ /\ Len(ga.heap[a]) # Len(ga.heap[b])
                   /\ ga' = Operated("crossover", x, z, ga.heap, "panic")
                \/ \E cuts \in CutSets(Len(ga.heap[a])) :
                      ga' = Operated("crossover", x, z,
                                     CrossGNXString(ga.heap, a, b, cuts, n), "ok")
    /\ EvalIdle

(***************************************************************************)
(* The evaluation of one genome.                                           *)
(***************************************************************************)
InitWith(genomes, modes) ==
    /\ G \in genomes
    /\ g = NewGenomeState
    /\ index = 0
    /\ i = 0
    /\ pc = "loop"
    /\ fitness = 0
    /\ err = "nil"
    /\ hist = NewHist
    /\ mode \in modes
    /\ c2 = NewCall
    /\ r = RNewCall
    /\ ga = NewGA(OpsGenome(0), OpsGenome(1))

Init == InitWith(GenomesUpTo(MaxLen, Genes) \cup Scenarios, {"single"})

\* one iteration of the loop of the evaluation
Step ==
    /\ pc = "loop"
    /\ LET s == LoopBody(G, [g |-> g, index |-> index, i |-> i, pc |-> pc, fitness |-> fitness])
           gene == G[index + 1]
       IN /\ g' = s.g
          /\ index' = s.index
          /\ i' = s.i
          /\ pc' = s.pc
          /\ hist' = [steps |-> hist.steps + 1,
                      fetched |-> hist.fetched \cup {index},
                      lastPos |-> index,
                      lastGene |-> gene,
                      prevGene |-> hist.lastGene,
                      before |-> g,
                      trailBefore |-> hist.trail,
                      trail |-> IF gene = "C" THEN TRUE
                                ELSE IF gene \in {"A", "H", "I"} THEN hist.trail
                                ELSE FALSE,
                      effect |-> Dispatch(gene, g, index).g,
                      grows |-> hist.grows + (IF gene = "E" THEN 1 ELSE 0),
                      spawns |-> hist.spawns + (IF gene = "B" THEN 1 ELSE 0),
                      evaded |-> IF gene = "G" THEN TRUE
                                 ELSE IF gene = "F" THEN FALSE
                                 ELSE hist.evaded]
    /\ UNCHANGED <<G, fitness, err, mode, c2, r, ga>>

\* return 1.0 - (float64(g.Children) / 1000.0), nil
Return ==
    /\ pc = "ret"
    /\ fitness' = Fitness(g)
    /\ err' = "nil"
    /\ pc' = "done"
    /\ UNCHANGED <<G, g, index, i, hist, mode, c2, r, ga>>

Next == Step \/ Return

Spec == Init /\ [][Next]_vars

\* the loop of Evaluate runs without waiting for anything: an evaluation
\* that can take an iteration or return does so
InitFair == InitWith(GenomesUpTo(MaxLenFair, Genes) \cup Scenarios, {"single"})

FairSpec == InitFair /\ [][Next]_vars /\ WF_vars(Next)

(***************************************************************************)
(* Two evaluations of the same genome.  In mode "seq" the second call runs *)
(* after the first has returned; in mode "par" their iterations interleave *)
(* with at most MaxSkew iterations between them.                           *)
(***************************************************************************)
InitTwo == InitWith(GenomesUpTo(MaxLenTwo, Genes) \cup Scenarios, {"seq", "par"})

Sched1 == mode = "par" => (c2.pc # "loop" \/ i - c2.i < MaxSkew)

Sched2 == IF mode = "seq" THEN pc = "done" ELSE (pc # "loop" \/ c2.i - i < MaxSkew)

Step1 == Sched1 /\ Step

Step2 ==
    /\ Sched2
    /\ c2.pc = "loop"
    /\ c2' = LoopBody(G, c2)
    /\ UNCHANGED <<G, g, index, i, pc, fitness, err, hist, mode, r, ga>>

Return2 ==
    /\ c2.pc = "ret"
    /\ c2' = [c2 EXCEPT !.fitness = Fitness(c2.g), !.pc = "done"]
    /\ UNCHANGED <<G, g, index, i, pc, fitness, err, hist, mode, r, ga>>

NextTwo == Step1 \/ Return \/ Step2 \/ Return2

TwoSpec == InitTwo /\ [][NextTwo]_vars

(***************************************************************************)
(* The same genome over A..D evaluated by the canonical evaluator and then *)
(* by the reduced evaluator.                                               *)
(***************************************************************************)
InitBoth == InitWith(GenomesUpTo(MaxLen, {"A", "B", "C", "D"}), {"both"})

RStep ==
    /\ pc = "done"
    /\ r.pc = "loop"
    /\ r' = RLoopBody(G, r)
    /\ UNCHANGED <<G, g, index, i, pc, fitness, err, hist, mode, c2, ga>>

RReturn ==
    /\ r.pc = "ret"
    /\ r' = [r EXCEPT !.fitness = Fitness(r.g), !.pc = "done"]
    /\ UNCHANGED <<G, g, index, i, pc, fitness, err, hist, mode, c2, ga>>

NextBoth == Step \/ Return \/ RStep \/ RReturn

BothSpec == InitBoth /\ [][NextBoth]_vars

(***************************************************************************)
(* The optimizer applying the genome operators; no evaluation runs.        *)
(***************************************************************************)
InitOps ==
    /\ G = OpsGenome(0)
    /\ g = NewGenomeState
    /\ index = 0
    /\ i = 0
    /\ pc = "loop"
    /\ fitness = 0
    /\ err = "nil"
    /\ hist = NewHist
    /\ mode = "ops"
    /\ c2 = NewCall
    /\ r = RNewCall
    /\ ga \in {NewGA(OpsGenome(0), y0) :
                 y0 \in {OpsGenome(1), SubSeq(OpsGenome(1), 1, OpsLen - 1)}}

NextOps == OpClone \/ OpMutate \/ OpCrossover

OpsSpec == InitOps /\ [][NextOps]_vars

\* the number of iterations the reduced evaluation has executed
RSteps == IF r.pc # "loop" /\ r.g.Energy <= 0 THEN r.i + 1 ELSE r.i

TypeOK ==
    /\ G \in Seq(Genes) /\ Len(G) >= 1
    /\ g.Children \in Nat /\ g.Energy \in Int /\ g.FoundFood \in BOOLEAN
    /\ g.Size \in 1..Len(GrowCostTable) /\ g.Threat \in Int
    /\ i \in 0..StepBudget
    /\ pc \in {"loop", "ret", "done"}
    /\ err = "nil"

(***************************************************************************)
(* Properties.                                                             *)
(***************************************************************************)
AllGenes(genome, gene) == \A k \in 1..Len(genome) : genome[k] = gene

\* C1: in every reachable state of Evaluate 0 <= children <= 1000 and
\* children never exceeds the number of iterations executed so far; the
\* returned fitness is 1.0 - children/1000, hence <= 1.0, and the returned
\* error is nil.
C1_ChildrenAndFitness ==
    /\ g.Children >= 0 /\ g.Children <= 1000
    /\ g.Children <= hist.steps
    /\ err = "nil"
    /\ pc = "done" => fitness = 1000 - g.Children /\ fitness <= 1000

\* an evaluation that returned after Spawn Child succeeded more than once
C1_Witness == pc = "done" /\ g.Children >= 2

\* C2: Evaluate always terminates.  While in the loop the energy is
\* positive; the loop is left at the first iteration that ends with
\* energy <= 0, and otherwise after exactly 1000 iterations.  Once the
\* energy is <= 0 nothing is fetched and the organism does not change, and
\* the fitness returned is computed from the children at that moment.
C2_Terminates ==
    /\ <>(pc = "done")
    /\ [](pc = "loop" => g.Energy > 0 /\ hist.steps = i /\ i < 1000)
    /\ [](pc # "loop" => \/ g.Energy <= 0 /\ hist.steps = i + 1 /\ hist.steps <= 1000
                         \/ g.Energy > 0 /\ hist.steps = 1000 /\ i = 1000)
    /\ [][g.Energy <= 0 => g' = g /\ index' = index /\ i' = i /\ hist' = hist]_vars
    /\ [](pc = "done" => fitness = 1000 - g.Children)

\* an evaluation that returned after dying, before the budget was used, on
\* an iteration that spawned a child
C2_Witness ==
    /\ pc = "done" /\ g.Energy <= 0 /\ hist.steps < 1000
    /\ g.Children = hist.before.Children + 1

\* C3: after every non-fatal iteration that fetched position p the pointer
\* is (p+2) mod N if the gene was H with threat < 5.0 or I with
\* energy < 30.0, and (p+1) mod N otherwise; nothing is fetched outside
\* [0, N).  Genome "HB" fetches position 0 again and never position 1.
C3_PointerAdvance ==
    /\ pc = "loop" => index \in 0..(Len(G) - 1)
    /\ hist.fetched \subseteq 0..(Len(G) - 1)
    /\ (hist.steps >= 1 /\ g.Energy > 0) =>
          index = IF \/ hist.lastGene = "H" /\ hist.before.Threat < 5
                     \/ hist.lastGene = "I" /\ hist.before.Energy < 30 * Scale
                  THEN (hist.lastPos + 2) % Len(G)
                  ELSE (hist.lastPos + 1) % Len(G)
    /\ G = <<"H", "B">> => 1 \notin hist.fetched /\ (hist.steps >= 2 => hist.lastPos = 0)

\* genome "HB" after its second iteration, which fetched position 0
C3_Witness == G = <<"H", "B">> /\ hist.steps = 2 /\ hist.lastPos = 0 /\ index = 0

\* C4: found_food is false at the end of every iteration that executed D;
\* a D executed right after a D adds no energy; a D iteration raises the
\* energy only if a C was executed earlier and every iteration since
\* executed A, H or I.
C4_FoodConsumed ==
    /\ hist.lastGene = "D" => ~g.FoundFood
    /\ (hist.lastGene = "D" /\ hist.prevGene = "D") =>
          ~hist.before.FoundFood /\ g.Energy < hist.before.Energy
    /\ (hist.lastGene = "D" /\ g.Energy > hist.before.Energy) => hist.trailBefore
    /\ g.FoundFood = hist.trail

\* genome "CDD" after the second D, the first D having eaten
C4_Witness ==
    /\ G = <<"C", "D", "D">> /\ hist.steps = 3
    /\ hist.lastGene = "D" /\ hist.prevGene = "D" /\ g.Energy > InitEnergy

\* C5 as stated: an all-A genome ends with children = 0 and fitness 1.0
\* and dies of metabolic decay on its 10th iteration.
C5_Original ==
    (AllGenes(G, "A") /\ pc = "done") =>
        g.Children = 0 /\ fitness = 1000 /\ g.Energy <= 0 /\ hist.steps = 10

\* C5 (amended): an all-A genome ends with children = 0 and fitness 1.0;
\* A is exempt from metabolic decay, so the energy stays 10.0, the organism
\* never dies and the loop runs its 1000 iterations.
C5_NoOpSurvives ==
    AllGenes(G, "A") =>
        /\ g = NewGenomeState
        /\ pc # "loop" => hist.steps = 1000
        /\ pc = "done" => fitness = 1000

\* an all-A genome of length 2 whose evaluation returned
C5_Witness == AllGenes(G, "A") /\ Len(G) = 2 /\ pc = "done" /\ hist.steps = 1000

\* C6: an all-B genome ends with children <= 1; once a Spawn Child has been
\* attempted the energy is below 25.0 for the rest of the evaluation.
C6_AllReproduce ==
    AllGenes(G, "B") =>
        /\ g.Children <= 1
        /\ hist.steps >= 1 => g.Energy < 25 * Scale

\* an all-B genome of length 3 whose evaluation returned
C6_Witness == AllGenes(G, "B") /\ Len(G) = 3 /\ pc = "done" /\ hist.steps >= 1

C8_Original ==
    G = <<"A", "B">> =>
        /\ pc = "done" => fitness = 1000 /\ g.Children = 0
        /\ r.pc = "done" => r.fitness = 1000 /\ r.g.Children = 0

\* C8 (amended): genome "AB" yields fitness 1.0 (children = 0) in the
\* canonical evaluator, whose energy never exceeds the initial 10.0 and
\* which dies on the 2nd iteration; in the reduced evaluator the energy 9.0
\* at the first B exceeds the threshold 5.0, so it yields children = 1,
\* fitness 0.999, and dies on the 4th iteration.
C8_GenomeAB ==
    G = <<"A", "B">> =>
        /\ g.Children = 0 /\ g.Energy <= InitEnergy
        /\ pc = "done" => fitness = 1000 /\ hist.steps = 2
        /\ r.g.Children <= 1
        /\ r.pc = "done" => r.g.Children = 1 /\ r.fitness = 999 /\ RSteps = 4

\* genome "AB" evaluated by both evaluators
C8_Witness == G = <<"A", "B">> /\ pc = "done" /\ r.pc = "done"

\* C9 as stated: for every genome over A..D both evaluators execute the
\* same number of iterations and return the same children and fitness.
C9_Original ==
    (pc = "done" /\ r.pc = "done") =>
        RSteps = hist.steps /\ r.g.Children = g.Children /\ r.fitness = fitness

\* C9 (amended): the evaluators agree on the genomes that consist solely of
\* C or solely of D (10 iterations, children = 0, fitness 1.0); on other
\* genomes they can differ: "A" runs 1000 iterations in the canonical and
\* 10 in the reduced evaluator, "B" yields children 0 and 1.
C9_AgreeOnFoodOnly ==
    (pc = "done" /\ r.pc = "done") =>
        /\ (AllGenes(G, "C") \/ AllGenes(G, "D")) =>
              /\ RSteps = hist.steps /\ hist.steps = 10
              /\ r.g.Children = g.Children /\ g.Children = 0
              /\ r.fitness = fitness
        /\ G = <<"A">> => hist.steps = 1000 /\ RSteps = 10
        /\ G = <<"B">> => g.Children = 0 /\ r.g.Children = 1

\* an all-D genome of length 2 evaluated by both evaluators
C9_Witness == AllGenes(G, "D") /\ Len(G) = 2 /\ pc = "done" /\ r.pc = "done"

\* C10 as stated: an iteration that executes a gene outside A..I leaves
\* children, energy, found_food, size and threat unchanged and advances
\* the pointer by 1 modulo N.
C10_Original ==
    hist.lastGene = Unexpected =>
        g = hist.before /\ index = (hist.lastPos + 1) % Len(G)

\* C10 (amended): a gene outside A..I does not end the evaluation by
\* itself and has no instruction effect (children and size unchanged), but
\* its iteration is not passive: found_food is reset, the energy is lowered
\* by (1 + size/40)^2 and, if threat + 1 > 20 + size, by threat + 1, and
\* threat is incremented; unless the iteration is fatal the pointer
\* advances by 1 modulo N.
C10_UnexpectedGene ==
    hist.lastGene = Unexpected =>
        LET b == hist.before
        IN /\ g.Children = b.Children /\ g.Size = b.Size
           /\ ~g.FoundFood
           /\ g.Threat = b.Threat + 1
           /\ g.Energy = b.Energy - (40 + b.Size) * (40 + b.Size)
                         - (IF b.Threat + 1 > 20 + b.Size THEN (b.Threat + 1) * Scale ELSE 0)
           /\ g.Energy > 0 => index = (hist.lastPos + 1) % Len(G)
           /\ g.Energy <= 0 => index = hist.lastPos /\ b.Energy > 0

\* an unexpected gene executed with food located, the evaluation going on
C10_Witness ==
    hist.lastGene = Unexpected /\ hist.before.FoundFood /\ pc = "loop" /\ hist.lastPos = 1

\* the backing array a slot refers to, now and before the last operation
Now(x) == ga.heap[ga.ref[x]]
Was(x) == ga.last.heap[ga.ref[x]]

\* C11: Clone returns a genome with the length and symbols of the original
\* in storage of its own: after g2 = g.Clone(), as long as no operation has
\* been applied to g it holds what it held at the clone, whatever Mutate
\* and Crossover did to g2, and likewise for g2 and operations on g.
C11_CloneNoAlias ==
    /\ ga.last.op = "clone" => Now("g2") = Now("g")
    /\ ga.ref["g2"] # 0 =>
          /\ ga.ref["g2"] # ga.ref["g"] /\ ga.ref["g2"] # ga.ref["y"]
          /\ "g" \notin ga.touched => Now("g") = ga.snap
          /\ "g2" \notin ga.touched => Now("g2") = ga.snap

\* the clone was mutated and then crossed with y; g is as it was
C11_Witness ==
    /\ ga.ref["g2"] # 0 /\ ga.touched = {"g2", "y"}
    /\ ga.last.op = "crossover" /\ ga.last.x = "g2" /\ ga.result = "ok"
    /\ Now("g2") # Was("g2") /\ Was("g2") # ga.snap /\ Now("g") = ga.snap

C13_Original ==
    (ga.last.op = "crossover" /\ Len(Was(ga.last.x)) # Len(Was(ga.last.z))) =>
        ga.result = "InvalidInput" /\ ga.heap = ga.last.heap

\* the genes exempt from food decay and from metabolic decay
PassiveGenes == {"A", "H", "I"}

\* C14: an iteration that executes A, H or I leaves children, energy,
\* found_food, size and threat unchanged, whether or not the skip fires, so
\* the organism never dies on it, and food located by C is still there for
\* a D reached through passive iterations only.
C14_PassiveFrame ==
    /\ hist.lastGene \in PassiveGenes =>
          g = hist.before /\ hist.effect = hist.before /\ g.Energy > 0
    /\ (hist.lastGene = "D" /\ hist.trailBefore) =>
          hist.before.FoundFood /\ hist.effect.Energy > hist.before.Energy

\* an I whose skip fired, over at least one gene, with food located
C14_Witness ==
    /\ hist.lastGene = "I" /\ g.FoundFood /\ Len(G) >= 3
    /\ index = (hist.lastPos + 2) % Len(G)

\* C15: in every non-passive iteration the instruction effect comes first,
\* then energy -= (1 + size/40)^2 with the size after a Grow of this
\* iteration, then threat += 1, then energy -= threat exactly when the
\* incremented threat is > 20 + size, the amount being that threat.
C15_DecayOrder ==
    (hist.steps >= 1 /\ hist.lastGene \notin PassiveGenes) =>
        LET e == hist.effect
            t == e.Threat + 1
        IN /\ g.Children = e.Children /\ g.Size = e.Size
           /\ g.Threat = t
           /\ g.Energy = e.Energy - (40 + e.Size) * (40 + e.Size)
                         - (IF t > 20 + e.Size THEN t * Scale ELSE 0)
           /\ hist.lastGene = "E" => e.Size = hist.before.Size + 1

\* a Grow iteration on which the threat surcharge was deducted
C15_Witness ==
    /\ hist.lastGene = "E" /\ g.Threat > 20 + g.Size
    /\ g.Energy = hist.effect.Energy - (40 + g.Size) * (40 + g.Size) - g.Threat * Scale

\* C16: when D executes with found_food the energy right after the effect
\* is max(e + 10 + size, size + 15): at least e + 10 + size and at least
\* size + 15, never lower than e; without found_food it stays e.  Nothing
\* else of the organism is changed by the effect.
C16_EatFloor ==
    hist.lastGene = "D" =>
        LET b == hist.before
            e == hist.effect
        IN /\ e = [b EXCEPT !.Energy = e.Energy]
           /\ b.FoundFood =>
                 /\ e.Energy >= b.Energy + (10 + b.Size) * Scale
                 /\ e.Energy >= (b.Size + 15) * Scale
                 /\ e.Energy \in {b.Energy + (10 + b.Size) * Scale, (b.Size + 15) * Scale}
                 /\ e.Energy > b.Energy
           /\ ~b.FoundFood => e.Energy = b.Energy

\* a D that ate with so little energy that the floor size + 15 applied
C16_Witness ==
    /\ hist.lastGene = "D" /\ hist.before.FoundFood
    /\ hist.effect.Energy = (hist.before.Size + 15) * Scale
    /\ hist.effect.Energy > hist.before.Energy + (10 + hist.before.Size) * Scale

\* C17: at the end of every F iteration threat >= 1; threat < 0 is
\* reachable (genome "G" has threat -4 after its first iteration), and
\* whenever threat < 0 a G has been executed since the last F.
C17_ThreatFloor ==
    /\ hist.lastGene = "F" => hist.effect.Threat >= 0 /\ g.Threat >= 1
    /\ g.Threat < 0 => hist.evaded
    /\ (G = <<"G">> /\ hist.steps = 1) => g.Threat = -4

\* an F followed by G's that took the threat below zero
C17_Witness == g.Threat < 0 /\ hist.lastGene = "G" /\ hist.prevGene = "F"

\* C18: size >= 1 and size = 1 + the number of E iterations executed; an E
\* adds exactly 1 and charges (size/2)^1.05 for the size before the
\* increment; no other gene changes size.
C18_SizeGrows ==
    /\ g.Size >= 1
    /\ g.Size = 1 + hist.grows
    /\ hist.steps >= 1 =>
          IF hist.lastGene = "E"
          THEN /\ g.Size = hist.before.Size + 1
               /\ hist.effect.Energy = hist.before.Energy - GrowCostTable[hist.before.Size]
          ELSE g.Size = hist.before.Size

\* a third Grow, charged for size 3
C18_Witness == hist.lastGene = "E" /\ hist.before.Size = 3 /\ g.Size = 4 /\ hist.grows = 3

\* C19: a B executed with energy <= 25.0 spawns no child and ends with
\* energy < 0, so the evaluation stops there; every B but the last executed
\* iteration spawned a child, and B iterations - 1 <= children <= B
\* iterations.
C19_FailedSpawnFatal ==
    /\ (hist.lastGene = "B" /\ hist.before.Energy <= 25 * Scale) =>
          g.Children = hist.before.Children /\ g.Energy < 0 /\ pc # "loop"
    /\ (hist.lastGene = "B" /\ hist.before.Energy > 25 * Scale) =>
          g.Children = hist.before.Children + 1
    /\ hist.spawns - 1 <= g.Children /\ g.Children <= hist.spawns
    /\ pc = "loop" => g.Children = hist.spawns

\* an evaluation that spawned children and then died of a failed B
C19_Witness ==
    /\ pc = "done" /\ hist.lastGene = "B" /\ hist.before.Energy <= 25 * Scale
    /\ hist.spawns >= 2 /\ g.Children = hist.spawns - 1

HasGene(genome, gene) == \E k \in 1..Len(genome) : genome[k] = gene

\* C20: the energy rises only in a D iteration with found_food; a passive
\* iteration leaves it unchanged and every other iteration lowers it.  A
\* genome without C or without D never has more than the initial 10.0,
\* never spawns, and returns children = 0 and fitness 1.0.
C20_EnergySources ==
    /\ hist.steps >= 1 =>
          /\ g.Energy > hist.before.Energy =>
                hist.lastGene = "D" /\ hist.before.FoundFood
          /\ hist.lastGene \in PassiveGenes => g.Energy = hist.before.Energy
          /\ (hist.lastGene \notin PassiveGenes
                /\ ~(hist.lastGene = "D" /\ hist.before.FoundFood)) =>
                g.Energy < hist.before.Energy
    /\ (~HasGene(G, "C") \/ ~HasGene(G, "D")) =>
          /\ g.Energy <= InitEnergy
          /\ g.Children = 0
          /\ pc = "done" => fitness = 1000

\* a genome with C and B but no D whose evaluation returned
C20_Witness ==
    /\ pc = "done" /\ HasGene(G, "C") /\ HasGene(G, "B") /\ ~HasGene(G, "D")
    /\ hist.spawns >= 1 /\ fitness = 1000
====
